---- MODULE Spec2Model ----
(***************************************************************************)
(* EasyServe backend: service requests, bids, bookings and provider        *)
(* wallets, as implemented by serviceRequestController, providerController *)
(* and bookingController.                                                  *)
(*                                                                         *)
(* Every handler is an async function; each `await` on the database is a   *)
(* point where another request may run.  A handler is therefore modelled   *)
(* as one action per database round trip, `handler` for the first and      *)
(* `handler_step` for the later ones; round trips that no other handler    *)
(* can separate observably are one action, as said where it is done.  One  *)
(* client running its handlers one after the other is a sequential         *)
(* specification; two clients whose handlers interleave at the awaits are  *)
(* a concurrent one.  A specification is bounded by refusing the calls     *)
(* that would grow a collection past its bound.                            *)
(*                                                                         *)
(* Mongoose documents: doc.save() writes the paths the handler assigned    *)
(* ($set of the modified paths) and appends pushed array elements ($push); *)
(* it does not write back the paths the handler only read.                 *)
(***************************************************************************)
EXTENDS Integers, Sequences, FiniteSets, TLC

\* ---------------------------------------------------------------- bounds
MaxBids == 2
MaxBookings == 2
MaxMessages == 2
MaxStoredBids == 3

\* ------------------------------------------------------------- constants
Null == -1                       \* null / undefined / absent id or amount

Providers == {1, 2}              \* documents of the Provider collection
BidderIds == Providers \cup {3}  \* providerId values a body may carry; 3 has no Provider document
UserIds == {11}                  \* requesting users
\* One service request.  A handler reads and writes no request, bid or booking
\* other than those of the request its input leads to, so two requests never
\* act on each other.
RequestIds == {1}
MaxRequests == Cardinality(RequestIds)
BidIds == 1..MaxBids
BookingIds == 1..MaxBookings
BidAmounts == {450, 500}

Clients == {1, 2}                \* HTTP connections

\* req.user.id, the identity the protect middleware leaves with every booking
\* route: the user, a provider, or provider 3 who is party to no booking
ActorIds == UserIds \cup BidderIds

VARIABLES
    requests,   \* ServiceRequest collection, _id = position
    bids,       \* Bid collection, _id = position
    bookings,   \* Booking collection, _id = position
    wallets,    \* Wallet collection: owning provider -> wallet document
    calls,      \* per client: the handler in flight, its position and locals
    resp,       \* per client: the last HTTP response it received
    walletScreen, \* per provider: the state of the app's WalletScreen
    bookingScreen \* the user's BookingDetailsScreen of booking 1, on client 1

vars == <<requests, bids, bookings, wallets, calls, resp, walletScreen, bookingScreen>>

\* ------------------------------------------------------------ call state
Idle == [pc |-> "idle", requestId |-> Null, bidId |-> Null, providerId |-> Null,
         amount |-> Null, bookingId |-> Null, userId |-> Null, rating |-> Null,
         review |-> "",
         balance |-> Null, totalEarned |-> Null]

\* what the client sees of res.status(code).json({message, ...}); the documents
\* a success body echoes are the ones in the store
Response(op, code, message) ==
    [op |-> op, code |-> code, message |-> message]

NoResponse == Response("none", 0, "")

IsIdle(c) == calls[c].pc = "idle"

Return(c, r) ==
    /\ calls' = [calls EXCEPT ![c] = Idle]
    /\ resp' = [resp EXCEPT ![c] = r]
    /\ UNCHANGED <<walletScreen, bookingScreen>>

Goto(c, locals) ==
    /\ calls' = [calls EXCEPT ![c] = locals]
    /\ UNCHANGED <<resp, walletScreen, bookingScreen>>

InFlight(pcs) == Cardinality({c \in Clients : calls[c].pc \in pcs})

\* the positions of a call that is yet to save a new Booking
BookingSavePending == {"acceptBid:saveRequest", "acceptBid:saveBooking", "createBooking:save"}

\* ------------------------------------------------------ createServiceRequest
NewServiceRequest(in) ==
    [userId |-> in.userId,
     requestType |-> in.requestType,
     fixedAmount |-> IF in.requestType = "fixed" THEN in.fixedAmount ELSE Null,
     minBidAmount |-> IF in.requestType = "bidding" THEN in.minBidAmount ELSE Null,
     maxBidAmount |-> IF in.requestType = "bidding" THEN in.maxBidAmount ELSE Null,
     status |-> "open",
     assignedProviderId |-> Null,
     finalAmount |-> Null]

\* what serviceRequest.save() validates: the schema requires none of the
\* type-conditional fields
SchemaAccepts(doc) == TRUE

\* new ServiceRequest, save(), 201; a save that throws is answered 500
createServiceRequest(c, in) ==
    /\ IsIdle(c)
    /\ Len(requests) < MaxRequests
    /\ IF SchemaAccepts(NewServiceRequest(in))
       THEN /\ requests' = Append(requests, NewServiceRequest(in))
            /\ Return(c, Response("createServiceRequest", 201,
                                  "Service request created successfully"))
       ELSE /\ UNCHANGED requests
            /\ Return(c, Response("createServiceRequest", 500,
                                  "Error creating service request"))
    /\ UNCHANGED <<bids, bookings, wallets>>

\* request bodies of the two request types
RequestInputs ==
    { [userId |-> u, requestType |-> "fixed", fixedAmount |-> 500,
       minBidAmount |-> Null, maxBidAmount |-> Null] : u \in UserIds }
    \cup
    { [userId |-> u, requestType |-> "bidding", fixedAmount |-> Null,
       minBidAmount |-> 450, maxBidAmount |-> 500] : u \in UserIds }

\* bodies that leave out what their type needs (a field left out reads as
\* Null), and a body of neither type
IncompleteRequestInputs ==
    { [userId |-> u, requestType |-> "fixed", fixedAmount |-> Null,
       minBidAmount |-> Null, maxBidAmount |-> Null] : u \in UserIds }
    \cup
    { [userId |-> u, requestType |-> "bidding", fixedAmount |-> Null,
       minBidAmount |-> Null, maxBidAmount |-> Null] : u \in UserIds }
    \cup
    { [userId |-> u, requestType |-> "urgent", fixedAmount |-> 500,
       minBidAmount |-> 450, maxBidAmount |-> 500] : u \in UserIds }

\* ------------------------------------------------------------------ placeBid
BidsOf(r) == {b \in DOMAIN bids : bids[b].serviceRequestId = r}

\* what the Bid schema gives a new document
BidDefaults == [status |-> "pending"]

NewBid(r, p, amount) ==
    [serviceRequestId |-> r, providerId |-> p, proposedAmount |-> amount] @@ BidDefaults

\* the guards with the status tested before the request type
placeBid_StatusBeforeType(c, r, p, amount) ==
    /\ IsIdle(c)
    /\ UNCHANGED <<requests, bids, bookings, wallets>>
    /\ IF r \notin DOMAIN requests
       THEN Return(c, Response("placeBid", 404, "Service request not found"))
       ELSE IF requests[r].status # "open"
       THEN Return(c, Response("placeBid", 400, "Bidding is closed for this request"))
       ELSE IF requests[r].requestType # "bidding"
       THEN Return(c, Response("placeBid", 400, "This request is not open for bidding"))
       ELSE /\ Len(bids) + InFlight({"placeBid:findOne", "placeBid:saveBid"}) < MaxBids
            /\ Goto(c, [Idle EXCEPT !.pc = "placeBid:findOne", !.requestId = r,
                                    !.providerId = p, !.amount = amount])

\* ServiceRequest.findById and the two guards on the document read
placeBid(c, r, p, amount) ==
    /\ IsIdle(c)
    /\ UNCHANGED <<requests, bids, bookings, wallets>>
    /\ IF r \notin DOMAIN requests
       THEN Return(c, Response("placeBid", 404, "Service request not found"))
       ELSE IF requests[r].requestType # "bidding"
       THEN Return(c, Response("placeBid", 400, "This request is not open for bidding"))
       ELSE IF requests[r].status # "open"
       THEN Return(c, Response("placeBid", 400, "Bidding is closed for this request"))
       ELSE /\ Len(bids) + InFlight({"placeBid:findOne", "placeBid:saveBid"}) < MaxBids
            /\ Goto(c, [Idle EXCEPT !.pc = "placeBid:findOne", !.requestId = r,
                                    !.providerId = p, !.amount = amount])

\* the lookup that takes any provider for a first-time bidder
placeBid_findOne_NoDuplicateCheck(c) ==
    /\ calls[c].pc = "placeBid:findOne"
    /\ UNCHANGED <<requests, bids, bookings, wallets>>
    /\ Goto(c, [calls[c] EXCEPT !.pc = "placeBid:saveBid"])

\* Bid.findOne({serviceRequestId, providerId})
placeBid_findOne(c) ==
    /\ calls[c].pc = "placeBid:findOne"
    /\ UNCHANGED <<requests, bids, bookings, wallets>>
    /\ IF \E b \in BidsOf(calls[c].requestId) : bids[b].providerId = calls[c].providerId
       THEN Return(c, Response("placeBid", 400,
                               "You have already placed a bid"))
       ELSE Goto(c, [calls[c] EXCEPT !.pc = "placeBid:saveBid"])

\* bid.save()
placeBid_saveBid(c) ==
    /\ calls[c].pc = "placeBid:saveBid"
    /\ bids' = Append(bids, NewBid(calls[c].requestId, calls[c].providerId, calls[c].amount))
    /\ Goto(c, [calls[c] EXCEPT !.pc = "placeBid:saveRequest", !.bidId = Len(bids) + 1])
    /\ UNCHANGED <<requests, bookings, wallets>>

\* the flip refused when another call has flipped the status already
placeBid_saveRequest_FlipOnce(c) ==
    /\ calls[c].pc = "placeBid:saveRequest"
    /\ UNCHANGED <<bids, bookings, wallets>>
    /\ IF requests[calls[c].requestId].status = "open"
       THEN /\ requests' = [requests EXCEPT ![calls[c].requestId].status = "bidding"]
            /\ Return(c, Response("placeBid", 201, "Bid placed successfully"))
       ELSE /\ UNCHANGED requests
            /\ Return(c, Response("placeBid", 500, "Error placing bid"))

\* the save that also drops the request's bid range
placeBid_saveRequest_DropsRange(c) ==
    /\ calls[c].pc = "placeBid:saveRequest"
    /\ requests' = [requests EXCEPT ![calls[c].requestId].status = "bidding",
                                    ![calls[c].requestId].minBidAmount = Null]
    /\ Return(c, Response("placeBid", 201, "Bid placed successfully"))
    /\ UNCHANGED <<bids, bookings, wallets>>

\* serviceRequest.status = 'bidding'; serviceRequest.save().  The status the
\* handler tests is the one it read, and that one passed the 'open' guard.
placeBid_saveRequest(c) ==
    /\ calls[c].pc = "placeBid:saveRequest"
    /\ requests' = [requests EXCEPT ![calls[c].requestId].status = "bidding"]
    /\ Return(c, Response("placeBid", 201, "Bid placed successfully"))
    /\ UNCHANGED <<bids, bookings, wallets>>

\* ---------------------------------------------------------- getBidsByRequest
\* the orders a find can return the documents of S in
Orderings(S) ==
    {q \in [1..Cardinality(S) -> S] : \A i, j \in DOMAIN q : q[i] = q[j] => i = j}

\* sort({proposedAmount: -1})
getBidsByRequest_Descending(c, r) ==
    /\ IsIdle(c)
    /\ UNCHANGED <<requests, bids, bookings, wallets>>
    /\ \E q \in Orderings(BidsOf(r)) :
         /\ \A i, j \in DOMAIN q :
                i < j => bids[q[i]].proposedAmount >= bids[q[j]].proposedAmount
         /\ Return(c, [op |-> "getBidsByRequest", code |-> 200, message |-> "",
                       bids |-> q])

\* Bid.find({serviceRequestId}).sort({proposedAmount: 1}) and res.json(bids):
\* the body lists the documents by _id; bids of equal amount come in any order
getBidsByRequest(c, r) ==
    /\ IsIdle(c)
    /\ UNCHANGED <<requests, bids, bookings, wallets>>
    /\ \E q \in Orderings(BidsOf(r)) :
         /\ \A i, j \in DOMAIN q :
                i < j => bids[q[i]].proposedAmount <= bids[q[j]].proposedAmount
         /\ Return(c, [op |-> "getBidsByRequest", code |-> 200, message |-> "",
                       bids |-> q])

\* ----------------------------------------------------------------- acceptBid
BookingsOfRequest(r) == {k \in DOMAIN bookings : bookings[k].requestId = r}
BookingsOfBid(b) == {k \in DOMAIN bookings : bookings[k].bidId = b}

\* what the Booking schema gives a new document
BookingDefaults ==
    [completedByProvider |-> FALSE, completedByUser |-> FALSE,
     userRating |-> Null, userReview |-> "", messages |-> <<>>]

NewBooking(r, b, u, p, price) ==
    [requestId |-> r, bidId |-> b, userId |-> u, providerId |-> p,
     agreedPrice |-> price, status |-> "confirmed"] @@ BookingDefaults

AssignRequest(req, bid) ==
    [req EXCEPT !.assignedProviderId = bid.providerId,
                !.status = "assigned",
                !.finalAmount = bid.proposedAmount]

\* the guard without the already-assigned test
AcceptBidGuard_NoAssignedCheck(b) ==
    IF b = Null THEN Response("acceptBid", 400, "Missing bidId")
    ELSE IF b \notin DOMAIN bids THEN Response("acceptBid", 404, "Bid not found")
    ELSE IF bids[b].serviceRequestId \notin DOMAIN requests
    THEN Response("acceptBid", 404, "Service request not found")
    ELSE IF bids[b].providerId \notin Providers
    THEN Response("acceptBid", 404, "Provider not found")
    ELSE NoResponse

AcceptBidGuard(b) ==
    IF b = Null THEN Response("acceptBid", 400, "Missing bidId")
    ELSE IF b \notin DOMAIN bids THEN Response("acceptBid", 404, "Bid not found")
    ELSE IF bids[b].serviceRequestId \notin DOMAIN requests
    THEN Response("acceptBid", 404, "Service request not found")
    ELSE IF requests[bids[b].serviceRequestId].status = "assigned"
    THEN Response("acceptBid", 400, "Request already assigned")
    ELSE IF bids[b].providerId \notin Providers
    THEN Response("acceptBid", 404, "Provider not found")
    ELSE NoResponse

\* Bid.findById, ServiceRequest.findById, Provider.findById and their guards.
\* Bids and providers are never modified, so the three reads act as one.
acceptBid(c, b) ==
    /\ IsIdle(c)
    /\ UNCHANGED <<requests, bids, bookings, wallets>>
    /\ IF AcceptBidGuard(b) # NoResponse
       THEN Return(c, AcceptBidGuard(b))
       ELSE /\ Len(bookings) + InFlight(BookingSavePending) < MaxBookings
            /\ Goto(c, [Idle EXCEPT !.pc = "acceptBid:saveRequest", !.bidId = b,
                                    !.requestId = bids[b].serviceRequestId])

\* request.save()
acceptBid_saveRequest(c) ==
    /\ calls[c].pc = "acceptBid:saveRequest"
    /\ requests' = [requests EXCEPT ![calls[c].requestId] =
                        AssignRequest(@, bids[calls[c].bidId])]
    /\ Goto(c, [calls[c] EXCEPT !.pc = "acceptBid:saveBooking"])
    /\ UNCHANGED <<bids, bookings, wallets>>

\* booking.save() and the success response
acceptBid_saveBooking(c) ==
    /\ calls[c].pc = "acceptBid:saveBooking"
    /\ LET bid == bids[calls[c].bidId]
           req == requests[calls[c].requestId]
       IN bookings' = Append(bookings,
              NewBooking(calls[c].requestId, calls[c].bidId, req.userId,
                         bid.providerId, bid.proposedAmount))
    /\ Return(c, Response("acceptBid", 200,
                          "Bid accepted and booking created successfully"))
    /\ UNCHANGED <<requests, bids, wallets>>

\* booking.save() rejects: the catch block answers 500, nothing is undone
acceptBid_saveBookingThrows(c) ==
    /\ calls[c].pc = "acceptBid:saveBooking"
    /\ Return(c, Response("acceptBid", 500, "Error accepting bid"))
    /\ UNCHANGED <<requests, bids, bookings, wallets>>

\* ------------------------------------------------- updateRequestStatusByProvider
\* ServiceRequest.findByIdAndUpdate(id, {status}); a missing id updates nothing
\* and is answered 200 with request: null
updateRequestStatusByProvider(c, r, status) ==
    /\ IsIdle(c)
    /\ requests' = IF r \in DOMAIN requests
                   THEN [requests EXCEPT ![r].status = status]
                   ELSE requests
    /\ Return(c, Response("updateRequestStatusByProvider", 200, "Request status updated"))
    /\ UNCHANGED <<bids, bookings, wallets>>

\* the statuses the handler is documented for, and one of the others: the
\* handler writes whatever string the body carries
ProviderStatusInputs == {"in-progress", "completed", "cancelled", "open"}

\* ------------------------------------------------------------- createBooking
\* Booking.findOne({bidId}); an absent bidId is sent as null and matches the
\* bookings that have none
createBooking(c, in) ==
    /\ IsIdle(c)
    /\ UNCHANGED <<requests, bids, bookings, wallets>>
    /\ IF BookingsOfBid(in.bidId) # {}
       THEN Return(c, Response("createBooking", 400,
                               "Booking already exists for this bid"))
       ELSE /\ Len(bookings) + InFlight(BookingSavePending) < MaxBookings
            /\ Goto(c, [Idle EXCEPT !.pc = "createBooking:save", !.requestId = in.requestId,
                                    !.bidId = in.bidId, !.userId = in.userId,
                                    !.providerId = in.providerId, !.amount = in.agreedPrice])

\* booking.save()
createBooking_save(c) ==
    /\ calls[c].pc = "createBooking:save"
    /\ bookings' = Append(bookings,
           NewBooking(calls[c].requestId, calls[c].bidId, calls[c].userId,
                      calls[c].providerId, calls[c].amount))
    /\ Return(c, Response("createBooking", 200,
                          "Booking created successfully"))
    /\ UNCHANGED <<requests, bids, wallets>>

\* request bodies: the bid is one that has a booking already or the next one
\* that has none (which bid that is makes no difference to any handler), for
\* either provider, at the amount of that bid (bids alternate between the two
\* amounts)
AmountOfBid(b) == IF b % 2 = 1 THEN 450 ELSE 500

BookingInputs ==
    { [requestId |-> 1, bidId |-> b, userId |-> u, providerId |-> p,
       agreedPrice |-> AmountOfBid(b)] :
          b \in 1..(Len(bookings) + 1), u \in UserIds, p \in Providers }

\* ------------------------------------------------------- updateBookingStatus
validStatuses_WithReleased ==
    {"confirmed", "in-progress", "completed", "cancelled", "disputed", "payment-released"}

validStatuses == {"confirmed", "in-progress", "completed", "cancelled", "disputed"}

\* the update without the test of the status
updateBookingStatus_NoValidation(c, k, status) ==
    /\ IsIdle(c)
    /\ UNCHANGED <<requests, bids, wallets>>
    /\ IF k \notin DOMAIN bookings
       THEN /\ Return(c, Response("updateBookingStatus", 404, "Booking not found"))
            /\ UNCHANGED bookings
       ELSE /\ bookings' = [bookings EXCEPT ![k].status = status]
            /\ Return(c, Response("updateBookingStatus", 200, "Booking status updated"))

\* Booking.findByIdAndUpdate(id, {status})
updateBookingStatus(c, k, status) ==
    /\ IsIdle(c)
    /\ UNCHANGED <<requests, bids, wallets>>
    /\ IF status \notin validStatuses
       THEN /\ Return(c, Response("updateBookingStatus", 400, "Invalid status"))
            /\ UNCHANGED bookings
       ELSE IF k \notin DOMAIN bookings
       THEN /\ Return(c, Response("updateBookingStatus", 404, "Booking not found"))
            /\ UNCHANGED bookings
       ELSE /\ bookings' = [bookings EXCEPT ![k].status = status]
            /\ Return(c, Response("updateBookingStatus", 200, "Booking status updated"))

\* a status of the validated set, the one booking status that is not in it,
\* and a string that is no booking status
BookingStatusInputs == {"in-progress", "payment-released", "archived"}

\* -------------------------------------- startService, providerCompleteService
\* Booking.findById, one assignment, booking.save().  The value written does
\* not depend on the document read and documents are never deleted, so the
\* read and the write act as one step.
\* the start that also clears the provider's completion flag
startService_ResetsCompletion(c, k) ==
    /\ IsIdle(c)
    /\ UNCHANGED <<requests, bids, wallets>>
    /\ IF k \notin DOMAIN bookings
       THEN /\ Return(c, Response("startService", 404, "Booking not found"))
            /\ UNCHANGED bookings
       ELSE /\ bookings' = [bookings EXCEPT ![k].status = "in-progress",
                                            ![k].completedByProvider = FALSE]
            /\ Return(c, Response("startService", 200, "Service started"))

\* the start that also takes back the user's confirmation
startService_ClearsUserCompletion(c, k) ==
    /\ IsIdle(c)
    /\ UNCHANGED <<requests, bids, wallets>>
    /\ IF k \notin DOMAIN bookings
       THEN /\ Return(c, Response("startService", 404, "Booking not found"))
            /\ UNCHANGED bookings
       ELSE /\ bookings' = [bookings EXCEPT ![k].status = "in-progress",
                                            ![k].completedByUser = FALSE]
            /\ Return(c, Response("startService", 200, "Service started"))

\* the start refused unless the booking is confirmed
startService_OnlyFromConfirmed(c, k) ==
    /\ IsIdle(c)
    /\ UNCHANGED <<requests, bids, wallets>>
    /\ IF k \notin DOMAIN bookings
       THEN /\ Return(c, Response("startService", 404, "Booking not found"))
            /\ UNCHANGED bookings
       ELSE IF bookings[k].status # "confirmed"
       THEN /\ Return(c, Response("startService", 400, "Booking is not confirmed"))
            /\ UNCHANGED bookings
       ELSE /\ bookings' = [bookings EXCEPT ![k].status = "in-progress"]
            /\ Return(c, Response("startService", 200, "Service started"))

startService(c, k) ==
    /\ IsIdle(c)
    /\ UNCHANGED <<requests, bids, wallets>>
    /\ IF k \notin DOMAIN bookings
       THEN /\ Return(c, Response("startService", 404, "Booking not found"))
            /\ UNCHANGED bookings
       ELSE /\ bookings' = [bookings EXCEPT ![k].status = "in-progress"]
            /\ Return(c, Response("startService", 200, "Service started"))

\* the completion that releases the payment at once
providerCompleteService_ReleasesPayment(c, k) ==
    /\ IsIdle(c)
    /\ UNCHANGED <<requests, bids>>
    /\ IF k \notin DOMAIN bookings
       THEN /\ Return(c, Response("providerCompleteService", 404, "Booking not found"))
            /\ UNCHANGED <<bookings, wallets>>
       ELSE /\ bookings' = [bookings EXCEPT ![k].completedByProvider = TRUE]
            /\ wallets' = [p \in DOMAIN wallets |->
                              IF p = bookings[k].providerId
                              THEN [wallets[p] EXCEPT !.balance = @ + bookings[k].agreedPrice]
                              ELSE wallets[p]]
            /\ Return(c, Response("providerCompleteService", 200, "Service marked completed"))

\* the completion that flips the flag
providerCompleteService_Toggles(c, k) ==
    /\ IsIdle(c)
    /\ UNCHANGED <<requests, bids, wallets>>
    /\ IF k \notin DOMAIN bookings
       THEN /\ Return(c, Response("providerCompleteService", 404, "Booking not found"))
            /\ UNCHANGED bookings
       ELSE /\ bookings' = [bookings EXCEPT ![k].completedByProvider = ~@]
            /\ Return(c, Response("providerCompleteService", 200, "Service marked completed"))

providerCompleteService(c, k) ==
    /\ IsIdle(c)
    /\ UNCHANGED <<requests, bids, wallets>>
    /\ IF k \notin DOMAIN bookings
       THEN /\ Return(c, Response("providerCompleteService", 404, "Booking not found"))
            /\ UNCHANGED bookings
       ELSE /\ bookings' = [bookings EXCEPT ![k].completedByProvider = TRUE]
            /\ Return(c, Response("providerCompleteService", 200, "Service marked completed"))

\* -------------------------------------------------------- sendBookingMessage
\* a message text is a sequence of characters
IsSpace(ch) == ch = " "

RECURSIVE TrimStart(_)
TrimStart(t) == IF t # <<>> /\ IsSpace(Head(t)) THEN TrimStart(Tail(t)) ELSE t

RECURSIVE TrimEnd(_)
TrimEnd(t) ==
    IF t # <<>> /\ IsSpace(t[Len(t)]) THEN TrimEnd(SubSeq(t, 1, Len(t) - 1)) ELSE t

\* String.prototype.trim
Trim(t) == TrimEnd(TrimStart(t))

\* a body without a message field: no string, so no character sequence either
Undefined == <<"undefined">>

\* !message
Falsy(text) == text = Undefined \/ text = <<>>

\* Booking.findById and res.json(booking.messages || [])
getBookingMessages(c, k) ==
    /\ IsIdle(c)
    /\ UNCHANGED <<requests, bids, bookings, wallets>>
    /\ IF k \notin DOMAIN bookings
       THEN Return(c, Response("getBookingMessages", 404, "Booking not found"))
       ELSE Return(c, [op |-> "getBookingMessages", code |-> 200, message |-> "",
                       messages |-> bookings[k].messages])

NewMessage_Untrimmed(role, user, text) ==
    [senderRole |-> role, senderId |-> user, text |-> text]

NewMessage(role, user, text) ==
    [senderRole |-> role, senderId |-> user, text |-> Trim(text)]

sendBookingMessage_NoPartyCheck(c, k, user, role, text) ==
    /\ IsIdle(c)
    /\ UNCHANGED <<requests, bids, wallets>>
    /\ IF Falsy(text) \/ Trim(text) = <<>>
       THEN /\ Return(c, Response("sendBookingMessage", 400, "Message cannot be empty"))
            /\ UNCHANGED bookings
       ELSE IF k \notin DOMAIN bookings
       THEN /\ Return(c, Response("sendBookingMessage", 404, "Booking not found"))
            /\ UNCHANGED bookings
       ELSE /\ Len(bookings[k].messages) < MaxMessages
            /\ bookings' = [bookings EXCEPT ![k].messages =
                                Append(@, NewMessage(role, user, text))]
            /\ Return(c, Response("sendBookingMessage", 200, "Message sent"))

sendBookingMessage_LookupFirst(c, k, user, role, text) ==
    /\ IsIdle(c)
    /\ UNCHANGED <<requests, bids, wallets>>
    /\ IF k \notin DOMAIN bookings
       THEN /\ Return(c, Response("sendBookingMessage", 404, "Booking not found"))
            /\ UNCHANGED bookings
       ELSE IF Falsy(text) \/ Trim(text) = <<>>
       THEN /\ Return(c, Response("sendBookingMessage", 400, "Message cannot be empty"))
            /\ UNCHANGED bookings
       ELSE IF bookings[k].userId # user /\ bookings[k].providerId # user
       THEN /\ Return(c, Response("sendBookingMessage", 403, "Unauthorized"))
            /\ UNCHANGED bookings
       ELSE /\ Len(bookings[k].messages) < MaxMessages
            /\ bookings' = [bookings EXCEPT ![k].messages =
                                Append(@, NewMessage(role, user, text))]
            /\ Return(c, Response("sendBookingMessage", 200, "Message sent"))

\* Booking.findById, the guards, messages.push and booking.save().  The guards
\* read userId and providerId, which no handler writes, and the save appends,
\* so the read and the write act as one step.
sendBookingMessage(c, k, user, role, text) ==
    /\ IsIdle(c)
    /\ UNCHANGED <<requests, bids, wallets>>
    /\ IF Falsy(text) \/ Trim(text) = <<>>
       THEN /\ Return(c, Response("sendBookingMessage", 400, "Message cannot be empty"))
            /\ UNCHANGED bookings
       ELSE IF k \notin DOMAIN bookings
       THEN /\ Return(c, Response("sendBookingMessage", 404, "Booking not found"))
            /\ UNCHANGED bookings
       ELSE IF bookings[k].userId # user /\ bookings[k].providerId # user
       THEN /\ Return(c, Response("sendBookingMessage", 403, "Unauthorized"))
            /\ UNCHANGED bookings
       ELSE /\ Len(bookings[k].messages) < MaxMessages
            /\ bookings' = [bookings EXCEPT ![k].messages =
                                Append(@, NewMessage(role, user, text))]
            /\ Return(c, Response("sendBookingMessage", 200, "Message sent"))

\* req.user.role and message bodies: missing, empty, blank, plain, and padded
\* with a space
Roles == {"user", "provider"}
MessageTexts == {Undefined, <<>>, <<" ">>, <<"h", "i">>, <<" ", "o", "k">>}

\* ------------------------------------------------------------------- wallets
NewWallet == [balance |-> 0, totalEarned |-> 0, transactions |-> <<>>]

HasWallet(p) == p \in DOMAIN wallets

\* a wallet is opened for a provider outside the booking flow
createWallet(c, p) ==
    /\ IsIdle(c)
    /\ ~HasWallet(p)
    /\ wallets' = [q \in DOMAIN wallets \cup {p} |->
                        IF q = p THEN NewWallet ELSE wallets[q]]
    /\ Return(c, Response("createWallet", 201, "Wallet created"))
    /\ UNCHANGED <<requests, bids, bookings>>

CreditTransaction(k, amount) ==
    [type |-> "credit", amount |-> amount, status |-> "completed", bookingId |-> k]

CreditsFor(p, k) ==
    IF HasWallet(p)
    THEN {i \in DOMAIN wallets[p].transactions :
             /\ wallets[p].transactions[i].type = "credit"
             /\ wallets[p].transactions[i].bookingId = k}
    ELSE {}

\* -------------------------------------------------------- userConfirmBooking
\* the guard testing the status alone for "already confirmed"
ConfirmGuard_StatusOnly(k) ==
    IF k \notin DOMAIN bookings
    THEN Response("userConfirmBooking", 404, "Booking not found")
    ELSE IF bookings[k].status = "payment-released"
    THEN Response("userConfirmBooking", 400, "Booking already confirmed")
    ELSE IF ~bookings[k].completedByProvider
    THEN Response("userConfirmBooking", 400, "Provider has not completed the service yet")
    ELSE NoResponse

\* the guard without the provider-completed test
ConfirmGuard_NoProviderCheck(k) ==
    IF k \notin DOMAIN bookings
    THEN Response("userConfirmBooking", 404, "Booking not found")
    ELSE IF bookings[k].status = "payment-released" \/ bookings[k].completedByUser
    THEN Response("userConfirmBooking", 400, "Booking already confirmed")
    ELSE NoResponse

ConfirmGuard(k) ==
    IF k \notin DOMAIN bookings
    THEN Response("userConfirmBooking", 404, "Booking not found")
    ELSE IF bookings[k].status = "payment-released" \/ bookings[k].completedByUser
    THEN Response("userConfirmBooking", 400, "Booking already confirmed")
    ELSE IF ~bookings[k].completedByProvider
    THEN Response("userConfirmBooking", 400, "Provider has not completed the service yet")
    ELSE NoResponse

\* Booking.findById and the guards on the document read
userConfirmBooking(c, k, rating, review) ==
    /\ IsIdle(c)
    /\ UNCHANGED <<requests, bids, bookings, wallets>>
    /\ IF ConfirmGuard(k) # NoResponse
       THEN Return(c, ConfirmGuard(k))
       ELSE Goto(c, [Idle EXCEPT !.pc = "userConfirmBooking:saveBooking",
                                  !.bookingId = k, !.rating = rating,
                                  !.review = review,
                                  !.providerId = bookings[k].providerId,
                                  !.amount = bookings[k].agreedPrice])

\* the booking saved with its status left as it was
userConfirmBooking_saveBooking_KeepsStatus(c) ==
    /\ calls[c].pc = "userConfirmBooking:saveBooking"
    /\ bookings' = [bookings EXCEPT ![calls[c].bookingId] =
                        [@ EXCEPT !.completedByUser = TRUE,
                                  !.userRating = calls[c].rating,
                                  !.userReview = calls[c].review]]
    /\ Goto(c, [calls[c] EXCEPT !.pc = "userConfirmBooking:findWallet"])
    /\ UNCHANGED <<requests, bids, wallets>>

\* booking.save(): completedByUser, userRating, userReview and status
userConfirmBooking_saveBooking(c) ==
    /\ calls[c].pc = "userConfirmBooking:saveBooking"
    /\ bookings' = [bookings EXCEPT ![calls[c].bookingId] =
                        [@ EXCEPT !.completedByUser = TRUE,
                                  !.userRating = calls[c].rating,
                                  !.userReview = calls[c].review,
                                  !.status = "payment-released"]]
    /\ Goto(c, [calls[c] EXCEPT !.pc = "userConfirmBooking:findWallet"])
    /\ UNCHANGED <<requests, bids, wallets>>

\* the lookup that takes the confirmation back when there is no wallet
userConfirmBooking_findWallet_RollsBack(c) ==
    /\ calls[c].pc = "userConfirmBooking:findWallet"
    /\ UNCHANGED <<requests, bids, wallets>>
    /\ IF ~HasWallet(calls[c].providerId)
       THEN /\ bookings' = [bookings EXCEPT ![calls[c].bookingId] =
                               [@ EXCEPT !.completedByUser = FALSE,
                                         !.status = "in-progress"]]
            /\ Return(c, Response("userConfirmBooking", 404,
                                  "Provider wallet not found"))
       ELSE /\ UNCHANGED bookings
            /\ Goto(c, [calls[c] EXCEPT
                        !.pc = "userConfirmBooking:saveWallet",
                        !.balance = wallets[calls[c].providerId].balance + calls[c].amount,
                        !.totalEarned = wallets[calls[c].providerId].totalEarned + calls[c].amount])

\* the settlement adding the price to the balance alone
userConfirmBooking_findWallet_BalanceOnly(c) ==
    /\ calls[c].pc = "userConfirmBooking:findWallet"
    /\ UNCHANGED <<requests, bids, bookings, wallets>>
    /\ IF ~HasWallet(calls[c].providerId)
       THEN Return(c, Response("userConfirmBooking", 404, "Provider wallet not found"))
       ELSE Goto(c, [calls[c] EXCEPT
                        !.pc = "userConfirmBooking:saveWallet",
                        !.balance = wallets[calls[c].providerId].balance + calls[c].amount,
                        !.totalEarned = wallets[calls[c].providerId].totalEarned])

\* Wallet.findOne({userId: booking.providerId})
userConfirmBooking_findWallet(c) ==
    /\ calls[c].pc = "userConfirmBooking:findWallet"
    /\ UNCHANGED <<requests, bids, bookings, wallets>>
    /\ IF ~HasWallet(calls[c].providerId)
       THEN Return(c, Response("userConfirmBooking", 404,
                               "Provider wallet not found"))
       ELSE Goto(c, [calls[c] EXCEPT
                        !.pc = "userConfirmBooking:saveWallet",
                        !.balance = wallets[calls[c].providerId].balance + calls[c].amount,
                        !.totalEarned = wallets[calls[c].providerId].totalEarned + calls[c].amount])

\* the save that records no transaction
userConfirmBooking_saveWallet_NoTransaction(c) ==
    /\ calls[c].pc = "userConfirmBooking:saveWallet"
    /\ wallets' = [wallets EXCEPT ![calls[c].providerId] =
                      [balance |-> calls[c].balance,
                       totalEarned |-> calls[c].totalEarned,
                       transactions |-> @.transactions]]
    /\ Return(c, Response("userConfirmBooking", 200,
                          "Payment released to provider"))
    /\ UNCHANGED <<requests, bids, bookings>>

\* providerWallet.save(): the two sums computed on the document read, and the
\* pushed transaction
userConfirmBooking_saveWallet(c) ==
    /\ calls[c].pc = "userConfirmBooking:saveWallet"
    /\ wallets' = [wallets EXCEPT ![calls[c].providerId] =
                      [balance |-> calls[c].balance,
                       totalEarned |-> calls[c].totalEarned,
                       transactions |-> Append(@.transactions,
                            CreditTransaction(calls[c].bookingId, calls[c].amount))]]
    /\ Return(c, Response("userConfirmBooking", 200,
                          "Payment released to provider"))
    /\ UNCHANGED <<requests, bids, bookings>>

Ratings == {5}
Reviews == {"good"}

\* ------------------------------------- AvailableRequestScreen.loadRequests
\* the requests the provider's screen lists as open to an offer (the category
\* match is left out: categories are not modelled)
IsAvailable(req) ==
    /\ req.requestType \in {"bidding", "fixed"}
    /\ req.status \in {"open", "bidding"}

\* -------------------------------------------------------------- WalletScreen
\* The provider's wallet screen. Its state is the component's useState cells:
\* wallet (<<>> for null, <<w>> once loaded), transactions, the Alert on show
\* and the amount the open "Confirm Withdrawal" dialog closes over (<<>> when
\* no dialog is open).  The amount field's text is a sequence of characters.
ScreenState ==
    [wallet |-> <<>>, transactions |-> <<>>, alert |-> "", confirm |-> <<>>]

RECURSIVE Reverse(_)
Reverse(t) == IF t = <<>> THEN <<>> ELSE Append(Reverse(Tail(t)), Head(t))

\* paymentService.getWallet: the caller's wallet document
getWallet(p) == wallets[p]

\* loadWallet runs when the screen mounts; createdAt grows with the position in
\* the ledger, and sort() reorders walletData.transactions in place
loadWallet(p) ==
    /\ walletScreen[p].confirm = <<>>
    /\ walletScreen' = [walletScreen EXCEPT ![p] =
          IF HasWallet(p)
          THEN [@ EXCEPT !.wallet = << [getWallet(p) EXCEPT
                                          !.transactions = Reverse(@)] >>,
                         !.transactions = Reverse(getWallet(p).transactions)]
          ELSE [@ EXCEPT !.alert = "Error"]]
    /\ UNCHANGED <<requests, bids, bookings, wallets, calls, resp, bookingScreen>>

Digits == {"0", "1", "2", "3", "4", "5", "6", "7", "8", "9"}

DigitValue(ch) ==
    CASE ch = "0" -> 0 [] ch = "1" -> 1 [] ch = "2" -> 2 [] ch = "3" -> 3
      [] ch = "4" -> 4 [] ch = "5" -> 5 [] ch = "6" -> 6 [] ch = "7" -> 7
      [] ch = "8" -> 8 [] ch = "9" -> 9

RECURSIVE ParseDigits(_, _)
ParseDigits(t, acc) ==
    IF t = <<>> \/ Head(t) \notin Digits THEN acc
    ELSE ParseDigits(Tail(t), acc * 10 + DigitValue(Head(t)))

\* parseFloat on whole amounts: leading blanks, a sign, the leading digits;
\* NaN when no digit follows
parseFloat(t) ==
    LET s == TrimStart(t)
        neg == s # <<>> /\ Head(s) = "-"
        d == IF neg THEN Tail(s) ELSE s
    IN  IF d = <<>> \/ Head(d) \notin Digits
        THEN [isNaN |-> TRUE, value |-> 0]
        ELSE [isNaN |-> FALSE,
              value |-> (IF neg THEN -1 ELSE 1) * ParseDigits(d, 0)]

\* validators.price: the text is a positive amount
validators_price(t) == [valid |-> ~parseFloat(t).isNaN /\ parseFloat(t).value > 0]

DebitTransaction(amount) ==
    [type |-> "debit", amount |-> amount, reference |-> "withdrawal",
     status |-> "withdrawn"]

\* paymentService.withdraw: the ledger entry of a withdrawal
CanWithdraw(p, amount) ==
    HasWallet(p) /\ amount > 0 /\ amount <= wallets[p].balance

withdraw(p, amount) ==
    wallets' = [wallets EXCEPT ![p] =
                  [@ EXCEPT !.balance = @ - amount,
                            !.transactions = Append(@, DebitTransaction(amount))]]

handleWithdraw_NoBalanceCheck(p, text) ==
    LET validation == validators_price(text)
        amount == parseFloat(text).value
    IN  /\ walletScreen[p].confirm = <<>>
        /\ walletScreen' = [walletScreen EXCEPT ![p] =
              IF ~validation.valid
              THEN [@ EXCEPT !.alert = "Validation Error"]
              ELSE [@ EXCEPT !.alert = "Confirm Withdrawal",
                             !.confirm = <<amount>>]]
        /\ UNCHANGED <<requests, bids, bookings, wallets, calls, resp, bookingScreen>>

\* the Withdraw button: validate, compare with the loaded balance, ask
handleWithdraw(p, text) ==
    LET validation == validators_price(text)
        amount == parseFloat(text).value
        wallet == walletScreen[p].wallet
    IN  /\ walletScreen[p].confirm = <<>>
        /\ walletScreen' = [walletScreen EXCEPT ![p] =
              IF ~validation.valid
              THEN [@ EXCEPT !.alert = "Validation Error"]
              ELSE IF wallet = <<>> \/ amount > wallet[1].balance
              THEN [@ EXCEPT !.alert = "Insufficient Funds"]
              ELSE [@ EXCEPT !.alert = "Confirm Withdrawal",
                             !.confirm = <<amount>>]]
        /\ UNCHANGED <<requests, bids, bookings, wallets, calls, resp, bookingScreen>>

\* the dialog's Cancel button
cancelWithdraw(p) ==
    /\ walletScreen[p].confirm # <<>>
    /\ walletScreen' = [walletScreen EXCEPT ![p].confirm = <<>>]
    /\ UNCHANGED <<requests, bids, bookings, wallets, calls, resp, bookingScreen>>

\* the dialog's Withdraw button: the request, then the screen's own copy
confirmWithdraw(p) ==
    /\ walletScreen[p].confirm # <<>>
    /\ LET amount == walletScreen[p].confirm[1]
            wallet == walletScreen[p].wallet[1]
            updatedWallet ==
                [wallet EXCEPT !.balance = @ - amount,
                               !.transactions = <<DebitTransaction(amount)>> \o @]
       IN  IF CanWithdraw(p, amount)
           THEN /\ withdraw(p, amount)
                /\ walletScreen' = [walletScreen EXCEPT ![p] =
                      [wallet |-> <<updatedWallet>>,
                       transactions |-> updatedWallet.transactions,
                       alert |-> "Success", confirm |-> <<>>]]
           ELSE /\ walletScreen' = [walletScreen EXCEPT ![p] =
                      [@ EXCEPT !.alert = "Withdrawal Failed", !.confirm = <<>>]]
                /\ UNCHANGED wallets
    /\ UNCHANGED <<requests, bids, bookings, calls, resp, bookingScreen>>

WithdrawTexts ==
    { <<>>, <<"a", "b">>, <<"0">>, <<"-", "5">>, <<" ", "4", "5", "0">>,
      <<"5", "0", "0">>, <<"9", "9", "9">> }

\* ------------------------------------------------- UserBookingDetailsScreen
\* The user's details screen of booking 1 and its confirm-completion flow.
\* pc is the position in handleConfirmCompletion: idle, the open dialog, the
\* first and the second api.post of the Confirm button.  The screen's client
\* is client 1; a post is answered when the client is idle again with a
\* response, which the flow clears before it posts.
DetailsState ==
    [pc |-> "idle", rating |-> 0, alert |-> "", wentBack |-> FALSE]

\* route.params.bookingId
DetailsBookingId == CHOOSE k \in BookingIds : \A j \in BookingIds : k <= j

\* the stars the user has set, none or five
ScreenRatings == {0} \cup Ratings

\* the Confirm Completion button
handleConfirmCompletion(rating) ==
    /\ bookingScreen.pc = "idle"
    /\ ~bookingScreen.wentBack
    /\ bookingScreen' =
          IF rating = 0
          THEN [bookingScreen EXCEPT !.alert = "Rating Required", !.rating = rating]
          ELSE [bookingScreen EXCEPT !.alert = "Confirm Completion",
                                     !.rating = rating, !.pc = "dialog"]
    /\ UNCHANGED <<requests, bids, bookings, wallets, calls, resp, walletScreen>>

\* the dialog's Cancel button
cancelConfirmCompletion ==
    /\ bookingScreen.pc = "dialog"
    /\ bookingScreen' = [bookingScreen EXCEPT !.pc = "idle"]
    /\ UNCHANGED <<requests, bids, bookings, wallets, calls, resp, walletScreen>>

\* the dialog's Confirm button: onPress starts
pressConfirmCompletion ==
    /\ bookingScreen.pc = "dialog"
    /\ IsIdle(1)
    /\ bookingScreen' = [bookingScreen EXCEPT !.pc = "post1"]
    /\ resp' = [resp EXCEPT ![1] = NoResponse]
    /\ UNCHANGED <<requests, bids, bookings, wallets, calls, walletScreen>>

\* api.post(confirm-release, {rating, review}) and api.post(confirm-release):
\* the request reaches userConfirmBooking, the second one with no body
postConfirmRelease(review) ==
    /\ bookingScreen.pc \in {"post1", "post2"}
    /\ resp[1] = NoResponse
    /\ IF bookingScreen.pc = "post1"
       THEN userConfirmBooking(1, DetailsBookingId, bookingScreen.rating, review)
       ELSE userConfirmBooking(1, DetailsBookingId, Null, "")

\* an answer of 400 or more makes api.post throw
Throws(r) == r.code >= 400

\* the first post resolved or thrown
afterFirstPost ==
    /\ bookingScreen.pc = "post1"
    /\ IsIdle(1)
    /\ resp[1] # NoResponse
    /\ IF Throws(resp[1])
       THEN /\ bookingScreen' = [bookingScreen EXCEPT !.pc = "idle", !.alert = "Error"]
            /\ UNCHANGED resp
       ELSE /\ bookingScreen' = [bookingScreen EXCEPT !.pc = "post2"]
            /\ resp' = [resp EXCEPT ![1] = NoResponse]
    /\ UNCHANGED <<requests, bids, bookings, wallets, calls, walletScreen>>

\* the second post resolved (the success alert, navigation.goBack) or thrown
afterSecondPost ==
    /\ bookingScreen.pc = "post2"
    /\ IsIdle(1)
    /\ resp[1] # NoResponse
    /\ bookingScreen' =
          IF Throws(resp[1])
          THEN [bookingScreen EXCEPT !.pc = "idle", !.alert = "Error"]
          ELSE [bookingScreen EXCEPT !.pc = "idle", !.alert = "Success",
                                     !.wentBack = TRUE]
    /\ UNCHANGED <<requests, bids, bookings, wallets, calls, resp, walletScreen>>

\* ------------------------------------------------------------------- system
Init ==
    /\ requests = <<>>
    /\ bids = <<>>
    /\ bookings = <<>>
    /\ wallets = <<>>
    /\ calls = [c \in Clients |-> Idle]
    /\ resp = [c \in Clients |-> NoResponse]
    /\ walletScreen = [p \in Providers |-> ScreenState]
    /\ bookingScreen = DetailsState

BiddingSteps(c) ==
    \/ \E in \in RequestInputs : createServiceRequest(c, in)
    \/ \E r \in RequestIds, p \in BidderIds, a \in BidAmounts : placeBid(c, r, p, a)
    \/ placeBid_findOne(c)
    \/ placeBid_saveBid(c)
    \/ placeBid_saveRequest(c)
    \/ \E b \in BidIds \cup {Null} : acceptBid(c, b)
    \/ acceptBid_saveRequest(c)
    \/ acceptBid_saveBooking(c)
    \/ acceptBid_saveBookingThrows(c)

LifecycleSteps(c) ==
    \/ \E in \in BookingInputs : createBooking(c, in)
    \/ createBooking_save(c)
    \/ \E k \in BookingIds : startService(c, k)
    \/ \E k \in BookingIds : providerCompleteService(c, k)
    \/ \E p \in Providers : createWallet(c, p)

ConfirmSteps(c) ==
    \/ \E k \in BookingIds, r \in Ratings, v \in Reviews : userConfirmBooking(c, k, r, v)
    \/ userConfirmBooking_saveBooking(c)
    \/ userConfirmBooking_findWallet(c)
    \/ userConfirmBooking_saveWallet(c)

\* one client, one handler at a time: the bidding engine
Next ==
    \/ BiddingSteps(1)
    \/ \E r \in RequestIds, s \in ProviderStatusInputs : updateRequestStatusByProvider(1, r, s)

Spec == Init /\ [][Next]_vars

\* two clients whose bidding handlers interleave at the awaits
NextBidRace == \E c \in Clients : BiddingSteps(c)

SpecBidRace == Init /\ [][NextBidRace]_vars

\* one client, one handler at a time: the booking lifecycle and settlement
NextBooking ==
    \/ LifecycleSteps(1)
    \/ ConfirmSteps(1)
    \/ \E k \in BookingIds, s \in BookingStatusInputs : updateBookingStatus(1, k, s)

SpecBooking == Init /\ [][NextBooking]_vars

\* two clients whose confirm-release calls interleave at the awaits, and with
\* the first client's other calls
NextConfirmRace == LifecycleSteps(1) \/ \E c \in Clients : ConfirmSteps(c)

SpecConfirmRace == Init /\ [][NextConfirmRace]_vars

\* one client, one handler at a time: the two handlers that save a Booking,
\* acceptBid and POST /bookings, with the bidding that leads to them
BookingSteps(c) ==
    \/ \E in \in BookingInputs : createBooking(c, in)
    \/ createBooking_save(c)

NextBidBooking == BiddingSteps(1) \/ BookingSteps(1)

SpecBidBooking == Init /\ [][NextBidBooking]_vars

MessageSteps(c) ==
    \/ \E k \in BookingIds, u \in ActorIds, ro \in Roles, t \in MessageTexts :
          sendBookingMessage(c, k, u, ro, t)
    \/ \E k \in BookingIds : getBookingMessages(c, k)

\* the role the token carries for an identity
RoleOf(u) == IF u \in UserIds THEN "user" ELSE "provider"

\* the chat of the first booking of user 11 and provider 1, read and written
\* by the user, the provider and provider 3, while the handlers that save a
\* booking run on it
NextMessages ==
    \/ \E in \in BookingInputs : in.providerId = 1 /\ createBooking(1, in)
    \/ createBooking_save(1)
    \/ startService(1, 1)
    \/ providerCompleteService(1, 1)
    \/ \E st \in BookingStatusInputs : updateBookingStatus(1, 1, st)
    \/ \E r \in Ratings, v \in Reviews : userConfirmBooking(1, 1, r, v)
    \/ userConfirmBooking_saveBooking(1)
    \/ userConfirmBooking_findWallet(1)
    \/ \E u \in UserIds \cup {1, 3}, t \in MessageTexts :
          sendBookingMessage(1, 1, u, RoleOf(u), t)
    \/ getBookingMessages(1, 1)

SpecMessages == Init /\ [][NextMessages]_vars

\* one client, one handler at a time: every handler of the two controllers
\* that writes, for a single provider and a single bid amount, with messages
\* on the first booking
NextBackend ==
    \/ \E in \in {i \in RequestInputs : i.requestType = "bidding"} :
          createServiceRequest(1, in)
    \/ \E r \in RequestIds : placeBid(1, r, 1, 450)
    \/ placeBid_findOne(1)
    \/ placeBid_saveBid(1)
    \/ placeBid_saveRequest(1)
    \/ \E b \in BidIds : acceptBid(1, b)
    \/ acceptBid_saveRequest(1)
    \/ acceptBid_saveBooking(1)
    \/ acceptBid_saveBookingThrows(1)
    \/ \E in \in {i \in BookingInputs : i.providerId = 1} : createBooking(1, in)
    \/ createBooking_save(1)
    \/ \E k \in BookingIds : startService(1, k)
    \/ \E k \in BookingIds : providerCompleteService(1, k)
    \/ \E k \in BookingIds, st \in BookingStatusInputs : updateBookingStatus(1, k, st)
    \/ \E u \in {1, 3} : sendBookingMessage(1, 1, u, "provider", <<"h", "i">>)
    \/ createWallet(1, 1)
    \/ ConfirmSteps(1)

SpecBackend == Init /\ [][NextBackend]_vars

\* the bids of two bidding requests, one bid at most per request and provider,
\* as calls to placeBid made one after the other leave them
StoredRequestIds == {1, 2}

BidCollections ==
    UNION { {q \in [1..n -> {NewBid(r, p, a) :
                               r \in StoredRequestIds, p \in BidderIds, a \in BidAmounts}] :
                \A i, j \in 1..n :
                    (/\ q[i].serviceRequestId = q[j].serviceRequestId
                     /\ q[i].providerId = q[j].providerId) => i = j}
            : n \in 0..MaxStoredBids }

InitGetBids ==
    /\ bids \in BidCollections
    /\ requests =
          [r \in StoredRequestIds |->
             [NewServiceRequest([userId |-> 11, requestType |-> "bidding",
                                 fixedAmount |-> Null, minBidAmount |-> 450,
                                 maxBidAmount |-> 500])
                EXCEPT !.status = IF BidsOf(r) = {} THEN "open" ELSE "bidding"]]
    /\ bookings = <<>>
    /\ wallets = <<>>
    /\ calls = [c \in Clients |-> Idle]
    /\ resp = [c \in Clients |-> NoResponse]
    /\ walletScreen = [p \in Providers |-> ScreenState]
    /\ bookingScreen = DetailsState

\* request 3 does not exist
NextGetBids == \E r \in StoredRequestIds \cup {3} : getBidsByRequest(1, r)

SpecGetBids == InitGetBids /\ [][NextGetBids]_vars

\* the bidding engine over complete and incomplete request bodies
NextRequests ==
    \/ BiddingSteps(1)
    \/ \E in \in IncompleteRequestInputs : createServiceRequest(1, in)
    \/ \E r \in RequestIds, st \in ProviderStatusInputs :
          updateRequestStatusByProvider(1, r, st)

SpecRequests == Init /\ [][NextRequests]_vars

\* the user confirms completion on the screen (client 1) while the booking is
\* made, worked on and given a wallet from elsewhere (client 2)
NextConfirmFlow ==
    \/ \E in \in BookingInputs : in.providerId = 1 /\ createBooking(2, in)
    \/ createBooking_save(2)
    \/ startService(2, DetailsBookingId)
    \/ providerCompleteService(2, DetailsBookingId)
    \/ createWallet(2, 1)
    \/ \E r \in ScreenRatings : handleConfirmCompletion(r)
    \/ cancelConfirmCompletion
    \/ pressConfirmCompletion
    \/ \E v \in Reviews : postConfirmRelease(v)
    \/ userConfirmBooking_saveBooking(1)
    \/ userConfirmBooking_findWallet(1)
    \/ userConfirmBooking_saveWallet(1)
    \/ afterFirstPost
    \/ afterSecondPost

SpecConfirmFlow == Init /\ [][NextConfirmFlow]_vars

WalletScreenSteps(p) ==
    \/ loadWallet(p)
    \/ \E t \in WithdrawTexts : handleWithdraw(p, t)
    \/ cancelWithdraw(p)
    \/ confirmWithdraw(p)

\* provider 1's bookings are settled while the provider uses the wallet screen
NextWallet ==
    \/ \E in \in BookingInputs : in.providerId = 1 /\ createBooking(1, in)
    \/ createBooking_save(1)
    \/ \E k \in BookingIds : providerCompleteService(1, k)
    \/ createWallet(1, 1)
    \/ ConfirmSteps(1)
    \/ WalletScreenSteps(1)

SpecWallet == Init /\ [][NextWallet]_vars

\* ===================================================================== claims
Quiescent == \A c \in Clients : IsIdle(c)

\* C1: after acceptBid(B) succeeds on request R, R is assigned to B's provider
\* at B's amount, and exactly one Booking has bidId = B; that booking is
\* confirmed at B's amount.
C1_AcceptBidPostcondition ==
    [][\A c \in Clients : acceptBid_saveBooking(c) =>
         LET b == calls[c].bidId
             r == calls[c].requestId
         IN /\ requests'[r].status = "assigned"
            /\ requests'[r].assignedProviderId = bids[b].providerId
            /\ requests'[r].finalAmount = bids[b].proposedAmount
            /\ Cardinality({k \in DOMAIN bookings' : bookings'[k].bidId = b}) = 1
            /\ \A k \in DOMAIN bookings' :
                  bookings'[k].bidId = b =>
                     /\ bookings'[k].status = "confirmed"
                     /\ bookings'[k].agreedPrice = bids[b].proposedAmount]_vars

\* C2: when two acceptBid calls on different bids of one request interleave,
\* the second observes assigned and fails: the two are never both past the
\* already-assigned guard, and no request gets bookings for two of its bids.
PastAcceptGuard(c) == calls[c].pc \in {"acceptBid:saveRequest", "acceptBid:saveBooking"}

C2_AtMostOneAcceptancePerRequest ==
    /\ \A c, d \in Clients :
          (PastAcceptGuard(c) /\ PastAcceptGuard(d) /\ calls[c].requestId = calls[d].requestId)
              => calls[c].bidId = calls[d].bidId
    /\ \A k1, k2 \in DOMAIN bookings :
          bookings[k1].requestId = bookings[k2].requestId =>
              bookings[k1].bidId = bookings[k2].bidId

\* C3: of the userConfirmBooking calls on one booking only one succeeds,
\* whatever their interleaving: the provider's wallet never holds two credit
\* transactions for the same booking.
C3_CreditedOncePerBooking ==
    \A k \in DOMAIN bookings :
        Cardinality(CreditsFor(bookings[k].providerId, k)) <= 1

\* C4: a userConfirmBooking that succeeds on booking K leaves K payment-released
\* and completedByUser, has added exactly K.agreedPrice to the balance and to
\* the totalEarned of the provider's wallet, and has appended exactly one credit
\* transaction for K of that amount.
C4_ConfirmSettlesOnce ==
    [][\A c \in Clients : userConfirmBooking_saveWallet(c) =>
         LET k == calls[c].bookingId
             p == bookings[k].providerId
             price == bookings[k].agreedPrice
         IN /\ resp'[c] = Response("userConfirmBooking", 200, "Payment released to provider")
            /\ bookings'[k].status = "payment-released"
            /\ bookings'[k].completedByUser
            /\ wallets'[p].balance = wallets[p].balance + price
            /\ wallets'[p].totalEarned = wallets[p].totalEarned + price
            /\ wallets'[p].transactions =
                   Append(wallets[p].transactions, CreditTransaction(k, price))
            /\ \A q \in DOMAIN wallets : q # p => wallets'[q] = wallets[q]]_vars

\* a second settlement has landed on a wallet that already held a credit
C4_Witness ==
    /\ resp[1] = Response("userConfirmBooking", 200, "Payment released to provider")
    /\ \E p \in DOMAIN wallets :
          /\ Len(wallets[p].transactions) = 2
          /\ wallets[p].transactions[1].amount # wallets[p].transactions[2].amount
          /\ wallets[p].balance = 950

\* C5: userConfirmBooking on a booking the user has confirmed already is
\* answered "already confirmed" and changes neither a wallet nor the booking,
\* so that calls made one after the other credit a booking at most once.
C5_SecondConfirmRejected ==
    /\ [][\A k \in BookingIds, r \in Ratings, v \in Reviews :
            (userConfirmBooking(1, k, r, v) /\ k \in DOMAIN bookings
                /\ bookings[k].completedByUser)
            => /\ resp'[1] = Response("userConfirmBooking", 400, "Booking already confirmed")
               /\ IsIdle(1)'
               /\ UNCHANGED <<wallets, bookings>>]_vars
    /\ [](\A k \in DOMAIN bookings :
             \A p \in DOMAIN wallets : Cardinality(CreditsFor(p, k)) <= 1)

\* the retry was turned away on a booking credited once, whose status a later
\* startService had overwritten
C5_Witness ==
    /\ resp[1] = Response("userConfirmBooking", 400, "Booking already confirmed")
    /\ Len(bookings) = 1
    /\ bookings[1].completedByUser
    /\ bookings[1].status = "in-progress"
    /\ Cardinality(CreditsFor(bookings[1].providerId, 1)) = 1

\* C6: userConfirmBooking on a booking the provider has not completed is
\* answered "provider has not completed" and changes neither the booking nor
\* any wallet.
C6_ConfirmBeforeProviderRejected ==
    [][\A k \in BookingIds, r \in Ratings, v \in Reviews :
         (userConfirmBooking(1, k, r, v) /\ k \in DOMAIN bookings /\ ~bookings[k].completedByProvider)
         => /\ resp'[1] = Response("userConfirmBooking", 400,
                                   "Provider has not completed the service yet")
            /\ IsIdle(1)'
            /\ UNCHANGED <<wallets, bookings>>]_vars

\* the call was turned away while the provider's wallet existed, empty
C6_Witness ==
    /\ resp[1] = Response("userConfirmBooking", 400, "Provider has not completed the service yet")
    /\ Len(bookings) = 1
    /\ ~bookings[1].completedByProvider
    /\ bookings[1].status = "in-progress"
    /\ HasWallet(bookings[1].providerId)
    /\ wallets[bookings[1].providerId] = NewWallet

\* C7: a userConfirmBooking that passed its guards and finds no wallet for the
\* provider is answered "wallet not found", leaves the booking payment-released
\* and completedByUser, and changes no wallet.
C7_MissingWalletLeavesBookingReleased ==
    [][\A c \in Clients :
         (userConfirmBooking_findWallet(c) /\ ~HasWallet(calls[c].providerId))
         => LET k == calls[c].bookingId
            IN /\ resp'[c] = Response("userConfirmBooking", 404, "Provider wallet not found")
               /\ IsIdle(c)'
               /\ bookings'[k].status = "payment-released"
               /\ bookings'[k].completedByUser
               /\ wallets' = wallets
               /\ CreditsFor(bookings[k].providerId, k) = {}]_vars

\* the call ended on the missing wallet while another provider's wallet held a credit
C7_Witness ==
    /\ resp[1] = Response("userConfirmBooking", 404, "Provider wallet not found")
    /\ \E k \in DOMAIN bookings :
          /\ bookings[k].status = "payment-released"
          /\ bookings[k].completedByUser
          /\ ~HasWallet(bookings[k].providerId)
    /\ \E p \in DOMAIN wallets : wallets[p].balance > 0

\* C8: acceptBid on a bid whose request is assigned is answered "already
\* assigned", creates no Booking and leaves the request as it was.
C8_AcceptOnAssignedRejected ==
    [][\A b \in BidIds :
         (acceptBid(1, b) /\ b \in DOMAIN bids
            /\ requests[bids[b].serviceRequestId].status = "assigned")
         => /\ resp'[1] = Response("acceptBid", 400, "Request already assigned")
            /\ IsIdle(1)'
            /\ UNCHANGED <<requests, bookings>>]_vars

\* the call was turned away on a request that has its one booking
C8_Witness ==
    /\ resp[1] = Response("acceptBid", 400, "Request already assigned")
    /\ Quiescent
    /\ \E r \in DOMAIN requests :
          /\ requests[r].status = "assigned"
          /\ Cardinality(BookingsOfRequest(r)) = 1

\* C9: acceptBid is all-or-nothing for its caller: once no call is in flight,
\* a request that acceptBid assigned has a Booking.
C9_AssignedRequestHasBooking ==
    Quiescent =>
        \A r \in DOMAIN requests :
            (requests[r].status = "assigned" /\ requests[r].assignedProviderId # Null)
                => BookingsOfRequest(r) # {}

\* C10: on a bidding request that already has a bid and is still listed as
\* available, a provider who has not bid yet is not turned away by placeBid.
C10_SecondProviderCanBid ==
    [][\A r \in RequestIds, p \in BidderIds, a \in BidAmounts :
         ( /\ placeBid(1, r, p, a)
           /\ r \in DOMAIN requests
           /\ requests[r].requestType = "bidding"
           /\ IsAvailable(requests[r])
           /\ BidsOf(r) # {}
           /\ \A b \in BidsOf(r) : bids[b].providerId # p )
         => calls'[1].pc = "placeBid:findOne"]_vars

\* C11: with calls made one after the other there is at most one Bid per
\* (serviceRequestId, providerId) pair: a placeBid by a provider who has a bid
\* on the request never gets as far as saving a bid.
C11_OneBidPerProviderPerRequest ==
    /\ \A b1, b2 \in DOMAIN bids :
          ( /\ bids[b1].serviceRequestId = bids[b2].serviceRequestId
            /\ bids[b1].providerId = bids[b2].providerId ) => b1 = b2
    /\ \A c \in Clients :
          calls[c].pc = "placeBid:saveBid" =>
              \A b \in BidsOf(calls[c].requestId) : bids[b].providerId # calls[c].providerId

\* the provider's second placeBid, on the request reopened, was turned away by
\* the lookup of the existing bid
C11_Witness ==
    /\ resp[1] = Response("placeBid", 400, "You have already placed a bid")
    /\ \E r \in DOMAIN requests :
          /\ requests[r].status = "open"
          /\ Cardinality(BidsOf(r)) = 1

\* C12: placeBid calls of distinct providers that both read the request while
\* it was open all succeed: a call past the open guard whose provider has no
\* bid on the request is not turned away whatever the other calls have written,
\* its bid is stored, and its flip leaves the request in status bidding and is
\* answered 201 also when the status has been flipped already.
C12_RacingBidsAllSucceed ==
    [][\A c \in Clients :
         /\ ( /\ placeBid_findOne(c)
              /\ \A b \in BidsOf(calls[c].requestId) :
                    bids[b].providerId # calls[c].providerId )
            => calls'[c].pc = "placeBid:saveBid"
         /\ placeBid_saveBid(c)
            => bids' = Append(bids, NewBid(calls[c].requestId, calls[c].providerId,
                                           calls[c].amount))
         /\ placeBid_saveRequest(c)
            => /\ resp'[c] = Response("placeBid", 201, "Bid placed successfully")
               /\ requests'[calls[c].requestId].status = "bidding"
               /\ bids'[calls[c].bidId].providerId = calls[c].providerId]_vars

\* both calls have returned 201, the request holds the bids of two providers
\* and is in status bidding
C12_Witness ==
    /\ Quiescent
    /\ \A c \in Clients : resp[c] = Response("placeBid", 201, "Bid placed successfully")
    /\ \E r \in DOMAIN requests :
          /\ requests[r].status = "bidding"
          /\ \E b1, b2 \in BidsOf(r) : bids[b1].providerId # bids[b2].providerId

\* C13: one Booking per Bid: no two Bookings have the same bidId (every
\* booking of the model has one).
C13_OneBookingPerBid ==
    \A k1, k2 \in DOMAIN bookings :
        bookings[k1].bidId = bookings[k2].bidId => k1 = k2

\* C14: once a request has been assigned, its assignedProviderId and its
\* finalAmount never change again.
C14_AssignmentImmutable ==
    [][\A r \in DOMAIN requests :
         requests[r].assignedProviderId # Null
         => /\ requests'[r].assignedProviderId = requests[r].assignedProviderId
            /\ requests'[r].finalAmount = requests[r].finalAmount]_vars

\* C15: a request enters status assigned at most once: acceptBid never assigns
\* a request that an earlier acceptBid has assigned.
C15_AssignedAtMostOnce ==
    [][\A c \in Clients :
         acceptBid_saveRequest(c) =>
             requests[calls[c].requestId].assignedProviderId = Null]_vars

\* C16: when acceptBid succeeds on bid B, B's status is accepted and every
\* other bid of the same request is rejected.
C16_AcceptMarksBids ==
    [][\A c \in Clients :
         acceptBid_saveBooking(c) =>
             /\ bids'[calls[c].bidId].status = "accepted"
             /\ \A b \in BidsOf(calls[c].requestId) \ {calls[c].bidId} :
                    bids'[b].status = "rejected"]_vars

\* C17: in every state a booking that is completedByUser is completedByProvider,
\* and completedByProvider, once true, is never reset.
C17_UserCompletionImpliesProviderCompletion ==
    /\ [](\A k \in DOMAIN bookings :
             bookings[k].completedByUser => bookings[k].completedByProvider)
    /\ [][\A k \in DOMAIN bookings :
             bookings[k].completedByProvider => bookings'[k].completedByProvider]_vars

\* the user's confirmation has just been saved on a booking the provider completed
C17_Witness ==
    /\ calls[1].pc = "userConfirmBooking:findWallet"
    /\ bookings[calls[1].bookingId].completedByUser
    /\ bookings[calls[1].bookingId].completedByProvider

\* C18: a booking enters payment-released only from status in-progress with
\* completedByProvider true.
C18_ReleasedOnlyFromInProgress ==
    [][\A c \in Clients :
         userConfirmBooking_saveBooking(c) =>
             /\ bookings[calls[c].bookingId].status = "in-progress"
             /\ bookings[calls[c].bookingId].completedByProvider]_vars

\* C19: startService, providerCompleteService, updateBookingStatus and
\* userConfirmBooking invoked by an actor who is neither the booking's user nor
\* its provider leave the booking unchanged.  None of the four handlers reads
\* req.user, so a call by that actor is any call.
C19_ThirdPartyCannotDriveBooking ==
    [][\A a \in ActorIds, k \in DOMAIN bookings :
         (a # bookings[k].userId /\ a # bookings[k].providerId) =>
            /\ startService(1, k) => UNCHANGED bookings
            /\ providerCompleteService(1, k) => UNCHANGED bookings
            /\ \A st \in BookingStatusInputs :
                  updateBookingStatus(1, k, st) => UNCHANGED bookings
            /\ \A r \in Ratings, v \in Reviews :
                  userConfirmBooking(1, k, r, v) => IsIdle(1)']_vars

\* C20: the balance and the totalEarned of a wallet change only in the step
\* that ends a successful userConfirmBooking for the wallet's provider: every
\* other step of every handler leaves every existing wallet as it is.
C20_WalletsChangeOnlyOnSettlement ==
    [][\A p \in DOMAIN wallets :
         \/ /\ p \in DOMAIN wallets'
            /\ wallets'[p] = wallets[p]
         \/ \E c \in Clients :
               /\ userConfirmBooking_saveWallet(c)
               /\ calls[c].providerId = p
               /\ resp'[c] = Response("userConfirmBooking", 200,
                                      "Payment released to provider")]_vars

\* a message was sent on a settled booking of an assigned request, its
\* provider's wallet holding the credit
C20_Witness ==
    /\ resp[1] = Response("sendBookingMessage", 200, "Message sent")
    /\ \E r \in DOMAIN requests : requests[r].status = "assigned"
    /\ \E k \in DOMAIN bookings :
          /\ bookings[k].messages # <<>>
          /\ bookings[k].status = "payment-released"
          /\ CreditsFor(bookings[k].providerId, k) # {}
          /\ wallets[bookings[k].providerId].balance > 0

\* C21: settlements of different bookings of one provider that interleave lose
\* no update: a wallet whose credits are for distinct bookings has a balance
\* equal to the sum of the credits recorded in its transactions.
RECURSIVE SumOfCredits(_)
SumOfCredits(txs) ==
    IF txs = <<>> THEN 0
    ELSE (IF Head(txs).type = "credit" THEN Head(txs).amount ELSE 0)
         + SumOfCredits(Tail(txs))

C21_NoLostWalletUpdate ==
    \A p \in DOMAIN wallets :
        (\A i, j \in DOMAIN wallets[p].transactions :
            wallets[p].transactions[i].bookingId = wallets[p].transactions[j].bookingId
                => i = j)
        => wallets[p].balance = SumOfCredits(wallets[p].transactions)

\* C22: a withdrawal whose amount is not a valid positive amount, or exceeds
\* the wallet balance (the one the screen holds or the one in the store), is
\* refused with a validation or insufficient-funds alert; no withdraw request
\* is issued for it, and the balance and the transactions stay as they were.
ParsedWithdrawTexts == [t \in WithdrawTexts |-> parseFloat(t)]

C22_ExcessiveWithdrawalRefused ==
    [][/\ \A p \in Providers :
            walletScreen'[p].confirm # <<>>
            => /\ walletScreen'[p].confirm[1] > 0
               /\ walletScreen'[p].wallet # <<>>
               /\ walletScreen'[p].confirm[1] <= walletScreen'[p].wallet[1].balance
               /\ HasWallet(p)'
               /\ walletScreen'[p].confirm[1] <= wallets'[p].balance
       /\ \A p \in {1}, t \in WithdrawTexts :
            LET amount == ParsedWithdrawTexts[t]
                invalid == amount.isNaN \/ amount.value <= 0
                exceeds ==
                    \/ walletScreen[p].wallet = <<>>
                    \/ amount.value > walletScreen[p].wallet[1].balance
                    \/ HasWallet(p) /\ amount.value > wallets[p].balance
            IN  (invalid \/ exceeds) /\ handleWithdraw(p, t)
                => /\ walletScreen'[p].alert =
                        IF invalid THEN "Validation Error" ELSE "Insufficient Funds"
                   /\ walletScreen'[p].confirm = <<>>
                   /\ walletScreen'[p].wallet = walletScreen[p].wallet
                   /\ walletScreen'[p].transactions = walletScreen[p].transactions
                   /\ UNCHANGED wallets]_vars

C22_Witness ==
    /\ walletScreen[1].alert = "Insufficient Funds"
    /\ walletScreen[1].wallet # <<>>
    /\ walletScreen[1].wallet[1].balance > 0
    /\ walletScreen[1].wallet[1].balance = wallets[1].balance

\* the senders and the bodies of the chat of booking 1
ChatSenders == UserIds \cup {1, 3}

IsParty(k, u) == bookings[k].userId = u \/ bookings[k].providerId = u

IsBlank(t) == t = Undefined \/ Trim(t) = <<>>

\* C23: a message sent by a party of the booking with a non-blank text is
\* appended once, at the end, as {senderRole, senderId, trimmed text}; no step
\* of any handler edits, removes or reorders the messages a booking already
\* has; getBookingMessages returns them in insertion order, empty when none.
C23_MessagesAppendOnly ==
    [][/\ \A k \in DOMAIN bookings :
            /\ k \in DOMAIN bookings'
            /\ Len(bookings'[k].messages) >= Len(bookings[k].messages)
            /\ SubSeq(bookings'[k].messages, 1, Len(bookings[k].messages))
                    = bookings[k].messages
       /\ \A u \in ChatSenders, t \in MessageTexts :
            /\ sendBookingMessage(1, 1, u, RoleOf(u), t)
            /\ 1 \in DOMAIN bookings
            /\ IsParty(1, u)
            /\ ~IsBlank(t)
            => /\ bookings'[1].messages =
                    bookings[1].messages \o
                        << [senderRole |-> RoleOf(u), senderId |-> u,
                            text |-> Trim(t)] >>
               /\ resp'[1] = Response("sendBookingMessage", 200, "Message sent")
       /\ getBookingMessages(1, 1) /\ 1 \in DOMAIN bookings
            => /\ resp'[1].code = 200
               /\ resp'[1].messages = bookings[1].messages]_vars

C23_Witness ==
    /\ 1 \in DOMAIN bookings
    /\ bookings[1].messages =
          << [senderRole |-> "provider", senderId |-> 1, text |-> <<"h", "i">>],
             [senderRole |-> "user", senderId |-> 11, text |-> <<"o", "k">>] >>
    /\ bookings[1].status = "in-progress"
    /\ resp[1].op = "getBookingMessages"
    /\ resp[1].code = 200
    /\ resp[1].messages = bookings[1].messages

\* C24: a message from someone who is neither the user nor the provider of
\* the booking is refused with 403 and the booking's messages are unchanged.
C24_NonPartyMessageRefused ==
    [][\A u \in ChatSenders, t \in MessageTexts :
            /\ sendBookingMessage(1, 1, u, RoleOf(u), t)
            /\ 1 \in DOMAIN bookings
            /\ ~IsBlank(t)
            /\ ~IsParty(1, u)
            => /\ resp'[1] = Response("sendBookingMessage", 403, "Unauthorized")
               /\ UNCHANGED bookings]_vars

C24_Witness ==
    /\ resp[1] = Response("sendBookingMessage", 403, "Unauthorized")
    /\ 1 \in DOMAIN bookings
    /\ Len(bookings[1].messages) = 1

\* C25: a missing or blank message is refused with 400 and nothing is stored;
\* the test comes before the booking is looked up, so the answer is 400 even
\* when the booking does not exist.
C25_BlankMessageRefused ==
    [][\A u \in ChatSenders, t \in MessageTexts :
            /\ sendBookingMessage(1, 1, u, RoleOf(u), t)
            /\ IsBlank(t)
            => /\ resp'[1] = Response("sendBookingMessage", 400,
                                      "Message cannot be empty")
               /\ UNCHANGED bookings]_vars

C25_Witness ==
    /\ resp[1] = Response("sendBookingMessage", 400, "Message cannot be empty")
    /\ bookings = <<>>

\* C26: placeBid fails, creating no Bid and leaving the request as it was,
\* when the request is not found (404), is not a bidding request, is not open,
\* or already has a bid of the provider; the tests are made in that order.
C26_PlaceBidFailures ==
    [][/\ \A r \in RequestIds, p \in BidderIds, a \in BidAmounts :
            placeBid(1, r, p, a)
            => /\ UNCHANGED <<requests, bids>>
               /\ (r \notin DOMAIN requests)
                    => resp'[1] = Response("placeBid", 404, "Service request not found")
               /\ (r \in DOMAIN requests /\ requests[r].requestType # "bidding")
                    => resp'[1] = Response("placeBid", 400,
                                          "This request is not open for bidding")
               /\ (r \in DOMAIN requests /\ requests[r].requestType = "bidding"
                                          /\ requests[r].status # "open")
                    => resp'[1] = Response("placeBid", 400,
                                          "Bidding is closed for this request")
               /\ (r \in DOMAIN requests /\ requests[r].requestType = "bidding"
                                          /\ requests[r].status = "open")
                    => (/\ calls'[1].pc = "placeBid:findOne"
                        /\ calls'[1].requestId = r
                        /\ calls'[1].providerId = p
                        /\ calls'[1].amount = a)
       /\ (/\ placeBid_findOne(1)
           /\ \E b \in DOMAIN bids :
                (/\ bids[b].serviceRequestId = calls[1].requestId
                 /\ bids[b].providerId = calls[1].providerId))
            => (/\ resp'[1] = Response("placeBid", 400, "You have already placed a bid")
                /\ calls'[1].pc = "idle"
                /\ UNCHANGED <<requests, bids>>)]_vars

C26_Witness ==
    /\ resp[1] = Response("placeBid", 400, "You have already placed a bid")
    /\ Len(bids) = 1
    /\ requests[1].status = "open"

\* C27: a successful placeBid creates exactly one Bid, pending, for the
\* request, the provider and the amount of the call, and changes the request's
\* status from open to bidding; no other field of the request and no other
\* bid changes.
C27_PlaceBidSuccess ==
    [][/\ placeBid_findOne(1) /\ calls'[1].pc # "idle"
            => /\ calls'[1] = [calls[1] EXCEPT !.pc = "placeBid:saveBid"]
               /\ UNCHANGED <<requests, bids>>
       /\ placeBid_saveBid(1)
            => /\ bids' = bids \o << [serviceRequestId |-> calls[1].requestId,
                                      providerId |-> calls[1].providerId,
                                      proposedAmount |-> calls[1].amount,
                                      status |-> "pending"] >>
               /\ calls'[1].requestId = calls[1].requestId
               /\ UNCHANGED requests
       /\ placeBid_saveRequest(1)
            => /\ requests[calls[1].requestId].status = "open"
               /\ requests' = [requests EXCEPT ![calls[1].requestId].status = "bidding"]
               /\ UNCHANGED bids
               /\ resp'[1] = Response("placeBid", 201, "Bid placed successfully")]_vars

C27_Witness ==
    /\ resp[1] = Response("placeBid", 201, "Bid placed successfully")
    /\ Len(bids) = 2
    /\ bids[1].providerId # bids[2].providerId
    /\ requests[1].status = "bidding"

\* C28: getBidsByRequest(R) returns exactly the bids whose serviceRequestId is
\* R, each once, in ascending order of proposedAmount.
C28_BidsOfRequestAscending ==
    [][\A r \in StoredRequestIds \cup {3} :
            getBidsByRequest(1, r)
            => /\ resp'[1].op = "getBidsByRequest"
               /\ resp'[1].code = 200
               /\ {resp'[1].bids[i] : i \in DOMAIN resp'[1].bids}
                    = {b \in DOMAIN bids : bids[b].serviceRequestId = r}
               /\ Len(resp'[1].bids)
                    = Cardinality({b \in DOMAIN bids : bids[b].serviceRequestId = r})
               /\ \A i \in 1..(Len(resp'[1].bids) - 1) :
                    bids[resp'[1].bids[i]].proposedAmount
                        <= bids[resp'[1].bids[i + 1]].proposedAmount
               /\ UNCHANGED bids]_vars

C28_Witness ==
    /\ Len(bids) = 3
    /\ bids[1].serviceRequestId = 1 /\ bids[1].proposedAmount = 500
    /\ bids[2].serviceRequestId = 2
    /\ bids[3].serviceRequestId = 1 /\ bids[3].proposedAmount = 450
    /\ resp[1].op = "getBidsByRequest"
    /\ resp[1].bids = <<3, 1>>

\* C29: every stored request has a fixedAmount exactly when its requestType
\* is fixed, whatever body it was created from.
C29_FixedAmountIffFixed ==
    \A r \in DOMAIN requests :
        (requests[r].fixedAmount # Null) <=> (requests[r].requestType = "fixed")

\* the fields a body of its type must carry
MissingRequired(in) ==
    \/ in.requestType = "fixed" /\ in.fixedAmount = Null
    \/ in.requestType = "bidding"
          /\ (in.minBidAmount = Null \/ in.maxBidAmount = Null)

\* C30: createServiceRequest refuses a body that lacks the fields its type
\* requires with a validation error, and stores nothing.
C30_IncompleteRequestRejected ==
    [][\A in \in RequestInputs \cup IncompleteRequestInputs :
            (createServiceRequest(1, in) /\ MissingRequired(in))
            => (/\ UNCHANGED requests
                /\ resp'[1].code \in 400..499)]_vars

\* C31: updateBookingStatus refuses a status outside {confirmed, in-progress,
\* completed, cancelled, disputed} with 400 and leaves the booking as it was;
\* an accepted call changes the status field alone.
C31_StatusValidated ==
    [][\A k \in BookingIds, st \in BookingStatusInputs :
            updateBookingStatus(1, k, st)
            => (/\ UNCHANGED wallets
                /\ (st \notin {"confirmed", "in-progress", "completed",
                                "cancelled", "disputed"})
                     => (/\ resp'[1] = Response("updateBookingStatus", 400,
                                                "Invalid status")
                         /\ UNCHANGED bookings)
                /\ (st \in {"confirmed", "in-progress", "completed",
                             "cancelled", "disputed"} /\ k \in DOMAIN bookings)
                     => (/\ resp'[1].code = 200
                         /\ bookings' = [bookings EXCEPT ![k].status = st]))]_vars

C31_Witness ==
    /\ resp[1] = Response("updateBookingStatus", 400, "Invalid status")
    /\ 1 \in DOMAIN bookings
    /\ bookings[1].completedByProvider
    /\ bookings[1].status = "in-progress"

\* C32: startService on an existing booking sets its status to in-progress
\* whatever the status was and changes nothing else of the booking and no
\* wallet; on a missing booking it answers 404 and changes nothing.
C32_StartServiceFrame ==
    [][\A k \in BookingIds :
            startService(1, k)
            => (/\ UNCHANGED wallets
                /\ (k \in DOMAIN bookings)
                     => (/\ resp'[1].code = 200
                         /\ bookings' = [bookings EXCEPT ![k].status = "in-progress"])
                /\ (k \notin DOMAIN bookings)
                     => (/\ resp'[1] = Response("startService", 404,
                                                "Booking not found")
                         /\ UNCHANGED bookings))]_vars

C32_Witness ==
    /\ resp[1] = Response("startService", 200, "Service started")
    /\ \E k \in DOMAIN bookings :
          /\ bookings[k].status = "in-progress"
          /\ bookings[k].completedByUser
          /\ bookings[k].completedByProvider

\* C33: providerCompleteService sets completedByProvider and changes nothing
\* else of the booking; called again it leaves the state as it is.
C33_ProviderCompleteFrame ==
    [][\A k \in BookingIds :
            (providerCompleteService(1, k) /\ k \in DOMAIN bookings)
            => (/\ UNCHANGED wallets
                /\ resp'[1].code = 200
                /\ bookings' = [bookings EXCEPT ![k].completedByProvider = TRUE]
                /\ bookings[k].completedByProvider => UNCHANGED bookings)]_vars

C33_Witness ==
    /\ resp[1] = Response("providerCompleteService", 200, "Service marked completed")
    /\ \E k \in DOMAIN bookings :
          /\ bookings[k].completedByProvider
          /\ bookings[k].status = "payment-released"

\* C34: with calls made one after the other, whatever they are, every booking
\* has at most one credit transaction, in its provider's wallet, and the
\* amount credited for it is never above its agreedPrice.
C34_AtMostOneCreditPerBooking ==
    \A p \in DOMAIN wallets, k \in BookingIds :
        /\ Cardinality(CreditsFor(p, k)) <= 1
        /\ CreditsFor(p, k) # {}
            => (/\ k \in DOMAIN bookings
                /\ bookings[k].providerId = p
                /\ \A i \in CreditsFor(p, k) :
                      wallets[p].transactions[i].amount <= bookings[k].agreedPrice)

C34_Witness ==
    /\ resp[1] = Response("userConfirmBooking", 400, "Booking already confirmed")
    /\ \E k \in DOMAIN bookings :
          /\ bookings[k].status = "in-progress"
          /\ bookings[k].completedByUser
          /\ CreditsFor(bookings[k].providerId, k) # {}

\* C35: payment-released is terminal: no step of any handler changes the
\* status of a booking whose status is payment-released.
C35_ReleasedIsTerminal ==
    [][\A k \in DOMAIN bookings :
            bookings[k].status = "payment-released"
            => bookings'[k].status = "payment-released"]_vars

\* C36: a booking whose status is payment-released has been completed by the
\* provider and by the user.
C36_ReleasedImpliesBothCompleted ==
    \A k \in DOMAIN bookings :
        bookings[k].status = "payment-released"
        => (bookings[k].completedByUser /\ bookings[k].completedByProvider)

C36_Witness ==
    /\ resp[1] = Response("updateBookingStatus", 400, "Invalid status")
    /\ \E k \in DOMAIN bookings : bookings[k].status = "payment-released"
    /\ \E k \in DOMAIN bookings : bookings[k].status = "confirmed"

\* C38: with settlements made one after the other on wallets opened empty,
\* totalEarned is the sum of the wallet's credit transactions and the balance
\* equals totalEarned.
C38_LedgerConsistent ==
    \A p \in DOMAIN wallets :
        /\ wallets[p].totalEarned = SumOfCredits(wallets[p].transactions)
        /\ wallets[p].balance = wallets[p].totalEarned

C38_Witness ==
    \E p \in DOMAIN wallets :
        /\ Len(wallets[p].transactions) = 2
        /\ wallets[p].balance = 950

\* a booking the user has confirmed, with no credit and no settlement under way
ConfirmedUncredited(k) ==
    /\ k \in DOMAIN bookings
    /\ bookings[k].completedByUser
    /\ \A p \in DOMAIN wallets : CreditsFor(p, k) = {}
    /\ ~(/\ calls[1].pc \in {"userConfirmBooking:findWallet",
                             "userConfirmBooking:saveWallet"}
         /\ calls[1].bookingId = k)

\* C37: once userConfirmBooking has failed on a booking for want of a wallet,
\* every later userConfirmBooking on it is refused as already confirmed, also
\* when the wallet exists by then, and no sequence of calls credits it.
C37_FailedSettlementNeverCredited ==
    [][/\ \A k \in BookingIds :
            (/\ calls[1].bookingId = k
             /\ userConfirmBooking_findWallet(1)
             /\ resp'[1] = Response("userConfirmBooking", 404,
                                    "Provider wallet not found")
             /\ calls'[1].pc = "idle")
            => ConfirmedUncredited(k)'
       /\ \A k \in BookingIds :
            ConfirmedUncredited(k) => ConfirmedUncredited(k)'
       /\ \A k \in BookingIds, r \in Ratings, v \in Reviews :
            (ConfirmedUncredited(k) /\ userConfirmBooking(1, k, r, v))
            => (/\ resp'[1] = Response("userConfirmBooking", 400,
                                       "Booking already confirmed")
                /\ UNCHANGED <<bookings, wallets>>)]_vars

C37_Witness ==
    /\ resp[1] = Response("userConfirmBooking", 400, "Booking already confirmed")
    /\ \E k \in DOMAIN bookings :
          /\ ConfirmedUncredited(k)
          /\ HasWallet(bookings[k].providerId)
          /\ bookings[k].status = "in-progress"

\* C39: in the confirm-completion flow, once the confirm-release request has
\* succeeded and the payment is released, the flow ends on the success alert
\* and navigates back, not on the error alert.
C39_ReleaseEndsInSuccess ==
    [][(/\ bookingScreen.pc = "post2"
        /\ bookingScreen'.pc # "post2")
       => (/\ bookingScreen'.alert = "Success"
           /\ bookingScreen'.wentBack)]_vars
====
